---- MODULE Spec2Model ----
(***************************************************************************)
(* Model of the quality-control station of app.py: the image defect        *)
(* analyzer (ImageProcessingService), the capture coordinator              *)
(* (MultimediaController), the serial command channel                      *)
(* (SerialComsController) and the processing run orchestrator              *)
(* (GUI.start_processing / GUI.processing_sequence / GUI.reset).           *)
(*                                                                         *)
(* The control thread (the Tk main loop) handles the START and RESET       *)
(* buttons; every accepted START spawns a worker thread that executes      *)
(* processing_sequence.  Worker program counters are named after the line  *)
(* of app.py the worker is about to execute.                               *)
(*                                                                         *)
(* Spec and SpecConcurrent run the orchestrator over a reliable serial     *)
(* link, SpecLossy over a link that fails, SpecTimed with the time that    *)
(* reset() sleeps; SpecAnalyzer, SpecCapture, SpecHistory and SpecDevices  *)
(* run the analyzer, one capture_images call, concurrent calls of          *)
(* add_history_entry and the opening and closing of the devices on their   *)
(* own.                                                                    *)
(***************************************************************************)
EXTENDS Integers, Sequences, FiniteSets, TLC

\* ------------------------------------------------------------------ bounds
\* Number of worker threads spawned over a behaviour of Spec (threads are
\* unbounded in the program); SpecConcurrent allows one more.
MaxWorkers == 1
\* Largest side of a bounding box and largest mask area of a modelled image.
MaxSide == 5
MaxArea == 26
\* Longest time, in seconds, that a camera read with its file write, or the
\* overrun of a sleep, takes under SpecCapture.
MaxDelay == 1
\* Calls of add_history_entry in flight at once under SpecHistory.
MaxCallers == 2

\* ------------------------------------------------------- program constants
\* range(4) in capture_images
NumReads == 4
\* time.sleep(8) in capture_images
CaptureDelay == 8
\* time.sleep(5) in the finally block of processing_sequence
CooldownDelay == 5
\* time.sleep(2) in reset
ResetDelay == 2
\* time.sleep(2) in SerialComsController.__init__, after the port opened
SettleDelay == 2

Threads(n) == 1..n

None == "None"
Ctrl == "controller"
\* The device handles that a controller attribute of the GUI holds open
held(controller) == IF controller = Ctrl THEN 1 ELSE 0

Commands == {"START", "DEFECT", "NORMAL", "RESET"}

VARIABLES
    processing_active,      \* GUI.processing_active
    start_button,           \* state of GUI.start_button: "normal" | "disabled"
    serial_controller,      \* GUI.serial_controller: None | Ctrl
    multimedia_controller,  \* GUI.multimedia_controller: None | Ctrl
    history_data,           \* GUI.history_data
    history_file,           \* contents of processing_history.json
    ctl,                    \* control thread: "mainloop" or a line of reset()
    nthreads,               \* worker threads spawned so far
    pc,                     \* per worker: line of processing_sequence
    captured_images,        \* per worker: local captured_images
    idx,                    \* per worker: frames consumed by the for loop
    defects_found,          \* per worker: local defects_found
    results,                \* per worker: has_defects of every analysed frame,
                            \* kept until the verdict command is sent
    sent,                   \* per worker: commands this run passed to send_command
    outcome,                \* per worker: Running | Completed | Failed | NotInitialized
    error,                  \* per worker: the exception caught at line 684
    last_command,           \* last command passed to send_command by anyone
    wire,                   \* what that send_command wrote to the serial device
    returned,               \* what that send_command returned to its caller
    lost,                   \* per worker: commands of the run that were not written
    link,                   \* the serial device: "up", or "down" (writes fail)
    cancelled,              \* per worker: the for loop was left by the break
    cooldown,               \* per worker: seconds slept since the run's RESET
    start_ignored,          \* a start request has been rejected by the flag check
    reset_slept,            \* seconds the control thread has slept in reset()
                            \* since it sent RESET
    image,                  \* analyzer input under SpecAnalyzer
    analysis,               \* analyzer output under SpecAnalyzer
    cap_pc,                 \* SpecCapture: line of capture_images
    cap_images,             \* SpecCapture: local images, a list of file names
    cap_files,              \* SpecCapture: files of the save folder, name -> frame
    now,                    \* SpecCapture: the wall clock, in seconds
    read_at,                \* SpecCapture: the time each cap.read() was called
    read_ok,                \* SpecCapture: the ret of each cap.read() so far
    hist_pc,                \* SpecHistory: per caller, line of add_history_entry
    hist_entry,             \* SpecHistory: per caller, the local entry
    hist_buffer,            \* SpecHistory: per caller, what json.dump has put
                            \* into the buffer of its open file
    dev_pc,                 \* SpecDevices: the control thread, "mainloop" or a
                            \* line of __init__, load_settings, save_settings
    ser_open,               \* SpecDevices: serial.Serial objects that are open
    cam_open,               \* SpecDevices: cv2.VideoCapture objects that are open
    preview                 \* SpecDevices: the preview thread: "off", "started",
                            \* "reading" (its camera opened) or "blind"

orch_vars == <<processing_active, start_button, serial_controller,
               multimedia_controller, history_data, history_file, ctl,
               nthreads, pc, captured_images, idx, defects_found, results,
               sent, outcome, error, last_command, wire, returned, cancelled,
               cooldown, link, lost, start_ignored, reset_slept>>
analyzer_vars == <<image, analysis>>
capture_vars == <<cap_pc, cap_images, cap_files, now, read_at, read_ok>>
store_vars == <<hist_pc, hist_entry, hist_buffer>>
handle_vars == <<dev_pc, ser_open, cam_open, preview>>
side_vars == <<store_vars, handle_vars>>
vars == <<orch_vars, analyzer_vars, capture_vars, side_vars>>

\* ------------------------------------------------------ the image analyzer
\* An image as the analyzer sees it: whether sitk.ReadImage / np.mean succeed,
\* whether find_contours returns any contour, the mask area and the bounding
\* box of the longest contour.
Images == [readable : BOOLEAN, contours : BOOLEAN, object_area : 0..MaxArea,
           width : 1..MaxSide, height : 1..MaxSide]

NoImage == [readable |-> FALSE, contours |-> FALSE, object_area |-> 0,
            width |-> 1, height |-> 1]
NoAnalysis == [result_image |-> "unset", has_defects |-> FALSE]
NoEntry == [run |-> 0, status |-> "none", images_processed |-> 0]

\* Mutant of has_defects_rule: the two thresholds themselves are rejects.
has_defects_rule_inclusive(object_area, bounding_box_area) ==
    \/ 10 * object_area <= 7 * bounding_box_area
    \/ 100 * object_area >= 95 * bounding_box_area

\* rectangularity < 0.7 or rectangularity > 0.95, on the exact quotient
\* object_area / bounding_box_area
has_defects_rule(object_area, bounding_box_area) ==
    \/ 10 * object_area < 7 * bounding_box_area
    \/ 100 * object_area > 95 * bounding_box_area

\* What the first `except Exception` clause returns.  The second clause,
\* `return None, True`, is unreachable: the first one catches everything.
analysis_error_result == [result_image |-> None, has_defects |-> FALSE]

process_image_for_defects(img) ==
    IF ~img.readable
      THEN analysis_error_result
      ELSE IF ~img.contours
             THEN [result_image |-> "masked", has_defects |-> FALSE]
             ELSE [result_image |-> "annotated",
                   has_defects |-> has_defects_rule(img.object_area,
                                                    img.width * img.height)]

\* isinstance(result_image, np.ndarray)
is_ndarray(result_image) == result_image \in {"masked", "annotated"}

\* GUI.process_and_update_display: a pair (has_defects, result_pil), or the
\* bare value False when result_pil is unbound (UnboundLocalError caught).
BareFalse == [pair |-> FALSE, has_defects |-> FALSE]
process_and_update_display(img) ==
    LET r == process_image_for_defects(img)
    IN  IF is_ndarray(r.result_image)
          THEN [pair |-> TRUE, has_defects |-> r.has_defects]
          ELSE BareFalse

\* ------------------------------------------------- the capture coordinator
\* reads[k]: whether cap.read() number k (1-based) returns a frame.
\* fault: where an exception is raised inside the try block: NoFault,
\* DirFault (os.makedirs) or k in 1..NumReads (iteration k: the read, the
\* imwrite or the file name).  capture_loop collects the indexes of the reads
\* that produced a frame; capture_images returns one file name per frame.  The
\* name is built from the wall clock alone; the orchestrator only uses the
\* length of the batch, and SpecCapture follows the loop against a clock.
NoFault == 0
DirFault == NumReads + 1
Faults == 0..(NumReads + 1)

RECURSIVE capture_loop(_, _, _, _)
capture_loop(reads, fault, k, images) ==
    IF k > NumReads THEN images
    ELSE IF fault = k THEN <<>>
    ELSE IF ~reads[k] THEN capture_loop(reads, fault, k + 1, images)
    ELSE capture_loop(reads, fault, k + 1, Append(images, k))

captured_frames(reads, fault) ==
    IF fault = DirFault THEN <<>> ELSE capture_loop(reads, fault, 1, <<>>)

filename(frame) == "image_timestamp.png"

capture_images(reads, fault) ==
    LET frames == captured_frames(reads, fault)
    IN  [k \in DOMAIN frames |-> filename(frames[k])]

ReadPatterns == [1..NumReads -> BOOLEAN]

\* Frames the camera can show to the analyzer during a run: a conforming
\* part (16/20), a part below 0.70 (10/20), a part above 0.95 (20/20), a
\* blank frame without contours and an unreadable file.
FrameImages ==
    { [readable |-> TRUE, contours |-> TRUE, object_area |-> 16, width |-> 4, height |-> 5],
      [readable |-> TRUE, contours |-> TRUE, object_area |-> 10, width |-> 4, height |-> 5],
      [readable |-> TRUE, contours |-> TRUE, object_area |-> 20, width |-> 4, height |-> 5],
      [readable |-> TRUE, contours |-> FALSE, object_area |-> 0, width |-> 1, height |-> 1],
      [readable |-> FALSE, contours |-> FALSE, object_area |-> 0, width |-> 1, height |-> 1] }

\* ------------------------------------------------- the serial command channel
\* f"{command}\n".encode(): the token followed by a newline
encode(command) == command \o "\n"

\* Nothing reached the device: the link is down, so that the port is not
\* open (line 121) or ser.write raises (lines 122-123)
NotWritten == "not written"

\* What send_command returns: it has no return statement, so the caller gets
\* None whether the bytes were written, the port was not open (line 121) or
\* the write raised (lines 122-123).
send_command_result(written) == IF written THEN None ELSE None

\* Mutant of send_command: the message is written without its newline.
send_command_unterminated(who, command) ==
    /\ last_command' = command
    /\ returned' = send_command_result(link = "up")
    /\ wire' = IF link = "up" THEN command ELSE NotWritten
    /\ sent' = IF who \in DOMAIN sent THEN [sent EXCEPT ![who] = Append(@, command)]
                                     ELSE sent
    /\ lost' = IF who \in DOMAIN lost /\ link = "down"
                 THEN [lost EXCEPT ![who] = Append(@, command)]
                 ELSE lost

\* Mutant of send_command: a write that failed is attempted a second time.
send_command_retries(who, command) ==
    /\ last_command' = command
    /\ returned' = send_command_result(link = "up")
    /\ wire' = IF link = "up" THEN encode(command) ELSE NotWritten
    /\ sent' = IF who \in DOMAIN sent
                 THEN [sent EXCEPT ![who] =
                         IF link = "up" THEN Append(@, command)
                                        ELSE Append(Append(@, command), command)]
                 ELSE sent
    /\ lost' = IF who \in DOMAIN lost /\ link = "down"
                 THEN [lost EXCEPT ![who] = Append(Append(@, command), command)]
                 ELSE lost

\* SerialComsController.send_command, called by worker `who` (0: the control
\* thread): the command is encoded and written, or the write fails because
\* the link is down; either way the call returns normally.
send_command(who, command) ==
    /\ last_command' = command
    /\ returned' = send_command_result(link = "up")
    /\ wire' = IF link = "up" THEN encode(command) ELSE NotWritten
    /\ sent' = IF who \in DOMAIN sent THEN [sent EXCEPT ![who] = Append(@, command)]
                                     ELSE sent
    /\ lost' = IF who \in DOMAIN lost /\ link = "down"
                 THEN [lost EXCEPT ![who] = Append(@, command)]
                 ELSE lost

start_process(who) == send_command(who, "START")
handle_defect(who) == send_command(who, "DEFECT")
handle_normal(who) == send_command(who, "NORMAL")
reset_all_devices(who) == send_command(who, "RESET")

\* ----------------------------------------------------------------- Init
\* k calls of add_history_entry about to run, none of them begun
InitStore(k) ==
    /\ hist_pc = [c \in 1..k |-> "L736"]
    /\ hist_entry = [c \in 1..k |-> NoEntry]
    /\ hist_buffer = [c \in 1..k |-> <<>>]

\* The state after GUI.__init__ for n worker slots: load_settings has tried to
\* open the serial port and the camera, either of which may have failed.
InitState(n) ==
    /\ processing_active = FALSE
    /\ start_button = "normal"
    /\ serial_controller \in {None, Ctrl}
    /\ multimedia_controller \in {None, Ctrl}
    /\ history_data = <<>>
    /\ history_file = <<>>
    /\ ctl = "mainloop"
    /\ nthreads = 0
    /\ pc = [w \in Threads(n) |-> "unborn"]
    /\ captured_images = [w \in Threads(n) |-> <<>>]
    /\ idx = [w \in Threads(n) |-> 0]
    /\ defects_found = [w \in Threads(n) |-> FALSE]
    /\ results = [w \in Threads(n) |-> <<>>]
    /\ sent = [w \in Threads(n) |-> <<>>]
    /\ outcome = [w \in Threads(n) |-> "Running"]
    /\ error = [w \in Threads(n) |-> "none"]
    /\ last_command = "none"
    /\ wire = "none"
    /\ returned = "none"
    /\ link = "up"
    /\ lost = [w \in Threads(n) |-> <<>>]
    /\ cancelled = [w \in Threads(n) |-> FALSE]
    /\ cooldown = [w \in Threads(n) |-> 0]
    /\ start_ignored = FALSE
    /\ reset_slept = 0
    /\ image = NoImage
    /\ analysis = NoAnalysis
    /\ cap_pc = "L72"
    /\ cap_images = <<>>
    /\ cap_files = <<>>
    /\ now = 0
    /\ read_at = <<>>
    /\ read_ok = <<>>

\* The control thread is at line `at`, every installed controller holds its
\* device open and the preview is off
InitHandles(at) ==
    /\ dev_pc = at
    /\ ser_open = held(serial_controller)
    /\ cam_open = held(multimedia_controller)
    /\ preview = "off"

\* The device handles are counted under SpecDevices only
HandlesNotCounted ==
    /\ dev_pc = "mainloop"
    /\ ser_open = 0
    /\ cam_open = 0
    /\ preview = "off"

InitThreads(n) == InitState(n) /\ InitStore(0) /\ HandlesNotCounted

\* ------------------------------------------------------ the control thread
\* Mutant of start_processing: START is sent before the flag is checked.
start_processing_sends_first ==
    /\ ctl = "mainloop"
    /\ start_button = "normal"
    /\ start_process(0)
    /\ IF ~processing_active
         THEN /\ nthreads < Cardinality(DOMAIN pc)
              /\ nthreads' = nthreads + 1
              /\ pc' = [pc EXCEPT ![nthreads + 1] = "L617"]
              /\ UNCHANGED start_ignored
         ELSE /\ start_ignored' = TRUE
              /\ UNCHANGED <<nthreads, pc>>
    /\ UNCHANGED <<processing_active, start_button, serial_controller,
                   multimedia_controller, history_data, history_file, ctl,
                   captured_images, idx, defects_found, results, outcome,
                   error, cancelled, cooldown,
                   link, reset_slept, analyzer_vars, capture_vars, side_vars>>

\* GUI.start_processing, the command of the START button.  Tk delivers the
\* click only while the button is enabled and the main loop is free.
start_processing ==
    /\ ctl = "mainloop"
    /\ start_button = "normal"
    /\ IF ~processing_active
         THEN /\ nthreads < Cardinality(DOMAIN pc)
              /\ nthreads' = nthreads + 1
              /\ pc' = [pc EXCEPT ![nthreads + 1] = "L617"]
              /\ UNCHANGED start_ignored
         ELSE /\ start_ignored' = TRUE
              /\ UNCHANGED <<nthreads, pc>>
    /\ UNCHANGED <<processing_active, start_button, serial_controller,
                   multimedia_controller, history_data, history_file, ctl,
                   captured_images, idx, defects_found, results, sent, lost,
                   outcome, error, last_command, returned, wire, cancelled,
                   cooldown, link, reset_slept, analyzer_vars, capture_vars,
                   side_vars>>

\* GUI.reset, lines 921-924: clear the frames and send RESET.  Without a
\* serial controller line 924 raises AttributeError and the callback ends.
reset ==
    /\ ctl = "mainloop"
    /\ serial_controller # None
    /\ reset_all_devices(0)
    /\ ctl' = "L925"
    /\ reset_slept' = 0
    /\ UNCHANGED <<processing_active, start_button, serial_controller,
                   multimedia_controller, history_data, history_file,
                   nthreads, pc, captured_images, idx, defects_found,
                   results, outcome, error, start_ignored, cancelled, cooldown,
                   link, analyzer_vars, capture_vars, side_vars>>

\* GUI.reset, lines 921-924, without a serial controller: the frames are
\* cleared and the callback stands at line 924, whose attribute access on
\* None raises AttributeError.
reset_no_controller ==
    /\ ctl = "mainloop"
    /\ serial_controller = None
    /\ ctl' = "L924"
    /\ UNCHANGED <<processing_active, start_button, serial_controller,
                   multimedia_controller, history_data, history_file,
                   nthreads, pc, captured_images, idx, defects_found,
                   results, sent, lost, outcome, error, last_command,
                   returned, wire, start_ignored, cancelled, cooldown, link,
                   reset_slept, analyzer_vars, capture_vars, side_vars>>

\* The AttributeError of line 924 ends the callback; Tk reports it and the
\* main loop goes on.  Lines 925-936 are not executed.
reset_raise ==
    /\ ctl = "L924"
    /\ ctl' = "mainloop"
    /\ UNCHANGED <<processing_active, start_button, serial_controller,
                   multimedia_controller, history_data, history_file,
                   nthreads, pc, captured_images, idx, defects_found,
                   results, sent, lost, outcome, error, last_command,
                   returned, wire, start_ignored, cancelled, cooldown, link,
                   reset_slept, analyzer_vars, capture_vars, side_vars>>

\* GUI.reset, line 925
reset_disable ==
    /\ ctl = "L925"
    /\ start_button' = "disabled"
    /\ ctl' = "L926"
    /\ UNCHANGED <<processing_active, serial_controller,
                   multimedia_controller, history_data, history_file,
                   nthreads, pc, captured_images, idx, defects_found,
                   results, sent, lost, outcome, error, last_command,
                   returned, wire, start_ignored, cancelled, cooldown, link,
                   reset_slept, analyzer_vars, capture_vars, side_vars>>

\* GUI.load_settings: a new serial controller replaces the old one if the
\* port opens; only then is the camera reopened, and a new multimedia
\* controller replaces the old one if that succeeds.
load_settings(serial_opens, camera_opens) ==
    /\ serial_controller' = IF serial_opens THEN Ctrl ELSE serial_controller
    /\ multimedia_controller' =
          IF serial_opens /\ camera_opens THEN Ctrl ELSE multimedia_controller

\* SerialComsController.__init__, lines 108-109: the constructor sleeps once
\* the port has opened
settle(serial_opens) == IF serial_opens THEN SettleDelay ELSE 0

\* GUI.reset, line 926
reset_load_settings ==
    /\ ctl = "L926"
    /\ \E serial_opens \in BOOLEAN, camera_opens \in BOOLEAN :
          /\ load_settings(serial_opens, camera_opens)
    /\ ctl' = "L928"
    /\ UNCHANGED <<processing_active, start_button, history_data,
                   history_file, nthreads, pc, captured_images, idx,
                   defects_found, results, sent, lost, outcome, error,
                   last_command, returned, wire, start_ignored, cancelled,
                   cooldown, link, reset_slept, analyzer_vars, capture_vars,
                   side_vars>>

\* GUI.reset, line 926, with the time it takes: the constructor of a serial
\* controller whose port opened sleeps SettleDelay seconds
reset_load_settings_timed ==
    /\ ctl = "L926"
    /\ \E serial_opens \in BOOLEAN, camera_opens \in BOOLEAN :
          /\ load_settings(serial_opens, camera_opens)
          /\ reset_slept' = reset_slept + settle(serial_opens)
    /\ ctl' = "L928"
    /\ UNCHANGED <<processing_active, start_button, history_data,
                   history_file, nthreads, pc, captured_images, idx,
                   defects_found, results, sent, lost, outcome, error,
                   last_command, returned, wire, start_ignored, cancelled,
                   cooldown, link, analyzer_vars, capture_vars, side_vars>>

\* GUI.reset, lines 928-931: time.sleep(2), then the button is enabled
reset_enable ==
    /\ ctl = "L928"
    /\ start_button' = "normal"
    /\ ctl' = "L933"
    /\ UNCHANGED <<processing_active, serial_controller,
                   multimedia_controller, history_data, history_file,
                   nthreads, pc, captured_images, idx, defects_found,
                   results, sent, lost, outcome, error, last_command,
                   returned, wire, start_ignored, cancelled, cooldown, link,
                   reset_slept, analyzer_vars, capture_vars, side_vars>>

\* GUI.reset, lines 928-931, with the time it takes
reset_enable_timed ==
    /\ ctl = "L928"
    /\ start_button' = "normal"
    /\ ctl' = "L933"
    /\ reset_slept' = reset_slept + ResetDelay
    /\ UNCHANGED <<processing_active, serial_controller,
                   multimedia_controller, history_data, history_file,
                   nthreads, pc, captured_images, idx, defects_found,
                   results, sent, lost, outcome, error, last_command,
                   returned, wire, start_ignored, cancelled, cooldown, link,
                   analyzer_vars, capture_vars, side_vars>>

\* GUI.reset, lines 933-936
reset_clear_active ==
    /\ ctl = "L933"
    /\ processing_active' = FALSE
    /\ ctl' = "mainloop"
    /\ reset_slept' = 0
    /\ UNCHANGED <<start_button, serial_controller, multimedia_controller,
                   history_data, history_file, nthreads, pc, captured_images,
                   idx, defects_found, results, sent, lost, outcome, error,
                   last_command, returned, wire, start_ignored, cancelled,
                   cooldown, link, analyzer_vars, capture_vars, side_vars>>

\* GUI.save_settings, the command of the Save Settings button: when the test
\* connection opens (line 367), a new serial controller is installed (line 378)
\* and load_settings is called (line 385).
save_settings ==
    /\ ctl = "mainloop"
    /\ \E port_opens \in BOOLEAN, camera_opens \in BOOLEAN :
          IF port_opens
            THEN /\ serial_controller' = Ctrl
                 /\ multimedia_controller' =
                       IF camera_opens THEN Ctrl ELSE multimedia_controller
            ELSE UNCHANGED <<serial_controller, multimedia_controller>>
    /\ UNCHANGED <<processing_active, start_button, history_data,
                   history_file, ctl, nthreads, pc, captured_images, idx,
                   defects_found, results, sent, lost, outcome, error,
                   last_command, returned, wire, start_ignored, cancelled,
                   cooldown, link, reset_slept, analyzer_vars, capture_vars,
                   side_vars>>

\* -------------------------------------------------------- the worker thread
goto(w, line) == pc' = [pc EXCEPT ![w] = line]

\* The locals of the run body (captured_images, i, defects_found) are dead
\* once the body is left.
drop_locals(w) ==
    /\ captured_images' = [captured_images EXCEPT ![w] = <<>>]
    /\ idx' = [idx EXCEPT ![w] = 0]
    /\ defects_found' = [defects_found EXCEPT ![w] = FALSE]
    /\ results' = [results EXCEPT ![w] = <<>>]

\* Mutant of raise: the exception ends the thread, no finally block runs.
raise_without_finally(w, exception) ==
    /\ error' = [error EXCEPT ![w] = exception]
    /\ outcome' = [outcome EXCEPT ![w] = "Failed"]
    /\ drop_locals(w)
    /\ goto(w, "done")

\* A raise inside the try block of processing_sequence, caught by the handler
\* of lines 684-689; control then reaches the finally block.
raise(w, exception) ==
    /\ error' = [error EXCEPT ![w] = exception]
    /\ outcome' = [outcome EXCEPT ![w] = "Failed"]
    /\ drop_locals(w)
    /\ goto(w, "L692")

\* processing_sequence, lines 617-618
worker_set_active(w) ==
    /\ pc[w] = "L617"
    /\ processing_active' = TRUE
    /\ goto(w, "L619")
    /\ UNCHANGED <<start_button, serial_controller, multimedia_controller,
                   history_data, history_file, ctl, nthreads,
                   captured_images, idx, defects_found, results, sent, lost,
                   outcome, error, last_command, returned, wire,
                   start_ignored, cancelled, cooldown, link, reset_slept,
                   analyzer_vars, capture_vars, side_vars>>

\* processing_sequence, line 619
worker_disable_start(w) ==
    /\ pc[w] = "L619"
    /\ start_button' = "disabled"
    /\ goto(w, "L622")
    /\ UNCHANGED <<processing_active, serial_controller,
                   multimedia_controller, history_data, history_file, ctl,
                   nthreads, captured_images, idx, defects_found, results,
                   sent, lost, outcome, error, last_command, returned, wire,
                   start_ignored, cancelled, cooldown, link, reset_slept,
                   analyzer_vars, capture_vars, side_vars>>

\* processing_sequence, lines 622-626: without a serial controller the run
\* returns from inside the try block, which runs the finally block
worker_check_serial(w) ==
    /\ pc[w] = "L622"
    /\ IF serial_controller = None
         THEN /\ outcome' = [outcome EXCEPT ![w] = "NotInitialized"]
              /\ goto(w, "L692")
         ELSE /\ goto(w, "L629")
              /\ UNCHANGED outcome
    /\ UNCHANGED <<processing_active, start_button, serial_controller,
                   multimedia_controller, history_data, history_file, ctl,
                   nthreads, captured_images, idx, defects_found, results,
                   sent, lost, error, last_command, returned, wire,
                   start_ignored, cancelled, cooldown, link, reset_slept,
                   analyzer_vars, capture_vars, side_vars>>

\* processing_sequence, lines 629-630
worker_start_process(w) ==
    /\ pc[w] = "L629"
    /\ start_process(w)
    /\ goto(w, "L634")
    /\ UNCHANGED <<processing_active, start_button, serial_controller,
                   multimedia_controller, history_data, history_file, ctl,
                   nthreads, captured_images, idx, defects_found, results,
                   outcome, error, start_ignored, cancelled, cooldown,
                   link, reset_slept, analyzer_vars, capture_vars, side_vars>>

\* Mutant of worker_capture: the empty-batch check of lines 635-636 is
\* missing, the for loop runs zero times.
worker_capture_unchecked(w) ==
    /\ pc[w] = "L79"
    /\ \E reads \in ReadPatterns, fault \in Faults :
          LET batch == capture_images(reads, fault)
          IN  /\ captured_images' = [captured_images EXCEPT ![w] = batch]
              /\ idx' = [idx EXCEPT ![w] = 0]
              /\ defects_found' = [defects_found EXCEPT ![w] = FALSE]
              /\ results' = [results EXCEPT ![w] = <<>>]
              /\ goto(w, IF Len(batch) = 0 THEN "L669" ELSE "L641")
              /\ UNCHANGED <<error, outcome>>
    /\ UNCHANGED <<processing_active, start_button, serial_controller,
                   multimedia_controller, history_data, history_file, ctl,
                   nthreads, sent, lost, last_command, returned, wire,
                   start_ignored, cancelled, cooldown, link, reset_slept,
                   analyzer_vars, capture_vars, side_vars>>

\* processing_sequence, lines 633-634: the call of capture_images.  Without
\* a multimedia controller the attribute access raises AttributeError; else
\* the worker is inside capture_images, reading the camera.
worker_capture_begin(w) ==
    /\ pc[w] = "L634"
    /\ IF multimedia_controller = None
         THEN raise(w, "AttributeError")
         ELSE /\ goto(w, "L79")
              /\ UNCHANGED <<error, outcome, captured_images, idx,
                             defects_found, results>>
    /\ UNCHANGED <<processing_active, start_button, serial_controller,
                   multimedia_controller, history_data, history_file, ctl,
                   nthreads, sent, lost, last_command, returned, wire,
                   start_ignored, cancelled, cooldown, link, reset_slept,
                   analyzer_vars, capture_vars, side_vars>>

\* processing_sequence, lines 634-640: capture_images returns the batch; an
\* empty batch raises
worker_capture(w) ==
    /\ pc[w] = "L79"
    /\ \E reads \in ReadPatterns, fault \in Faults :
          LET batch == capture_images(reads, fault)
          IN  IF Len(batch) = 0
                THEN raise(w, "Failed to capture images")
                ELSE /\ captured_images' = [captured_images EXCEPT ![w] = batch]
                     /\ idx' = [idx EXCEPT ![w] = 0]
                     /\ defects_found' = [defects_found EXCEPT ![w] = FALSE]
                     /\ results' = [results EXCEPT ![w] = <<>>]
                     /\ goto(w, "L641")
                     /\ UNCHANGED <<error, outcome>>
    /\ UNCHANGED <<processing_active, start_button, serial_controller,
                   multimedia_controller, history_data, history_file, ctl,
                   nthreads, sent, lost, last_command, returned, wire,
                   start_ignored, cancelled, cooldown, link, reset_slept,
                   analyzer_vars, capture_vars, side_vars>>

\* Mutant of worker_process_frame: defects_found is assigned, not
\* accumulated, so the last analysed frame decides.
worker_process_frame_last_wins(w) ==
    /\ pc[w] = "L641"
    /\ IF ~processing_active
         THEN /\ goto(w, "L669")
              /\ UNCHANGED <<idx, defects_found, results, error, outcome,
                             captured_images>>
         ELSE \E img \in FrameImages :
                LET r == process_and_update_display(img)
                IN  IF ~r.pair
                      THEN raise(w, "TypeError")
                      ELSE /\ defects_found' =
                                 [defects_found EXCEPT ![w] = r.has_defects]
                           /\ results' =
                                 [results EXCEPT ![w] = Append(@, r.has_defects)]
                           /\ idx' = [idx EXCEPT ![w] = @ + 1]
                           /\ goto(w, IF idx[w] + 1 = Len(captured_images[w])
                                        THEN "L669" ELSE "L641")
                           /\ UNCHANGED <<error, outcome, captured_images>>
    /\ UNCHANGED <<processing_active, start_button, serial_controller,
                   multimedia_controller, history_data, history_file, ctl,
                   nthreads, sent, lost, last_command, returned, wire,
                   start_ignored, cooldown, link, reset_slept, analyzer_vars,
                   capture_vars, side_vars>>
    /\ cancelled' = [cancelled EXCEPT ![w] = @ \/ ~processing_active]

\* Mutant of worker_process_frame: the flag is not checked between frames.
worker_process_frame_ignores_flag(w) ==
    /\ pc[w] = "L641"
    /\ IF FALSE
         THEN /\ goto(w, "L669")
              /\ UNCHANGED <<idx, defects_found, results, error, outcome,
                             captured_images>>
         ELSE \E img \in FrameImages :
                LET r == process_and_update_display(img)
                IN  IF ~r.pair
                      THEN raise(w, "TypeError")
                      ELSE /\ defects_found' =
                                 [defects_found EXCEPT ![w] = @ \/ r.has_defects]
                           /\ results' =
                                 [results EXCEPT ![w] = Append(@, r.has_defects)]
                           /\ idx' = [idx EXCEPT ![w] = @ + 1]
                           /\ goto(w, IF idx[w] + 1 = Len(captured_images[w])
                                        THEN "L669" ELSE "L641")
                           /\ UNCHANGED <<error, outcome, captured_images>>
    /\ UNCHANGED <<processing_active, start_button, serial_controller,
                   multimedia_controller, history_data, history_file, ctl,
                   nthreads, sent, lost, last_command, returned, wire,
                   start_ignored, cooldown, link, reset_slept, analyzer_vars,
                   capture_vars, side_vars>>
    /\ cancelled' = [cancelled EXCEPT ![w] = @ \/ ~processing_active]

\* processing_sequence, lines 641-660: one iteration of the for loop.  The
\* flag is read, then the frame is analysed; a bare False returned by
\* process_and_update_display cannot be unpacked (TypeError).
worker_process_frame(w) ==
    /\ pc[w] = "L641"
    /\ IF ~processing_active
         THEN /\ goto(w, "L669")
              /\ UNCHANGED <<idx, defects_found, results, error, outcome,
                             captured_images>>
         ELSE \E img \in FrameImages :
                LET r == process_and_update_display(img)
                IN  IF ~r.pair
                      THEN raise(w, "TypeError")
                      ELSE /\ defects_found' =
                                 [defects_found EXCEPT ![w] = @ \/ r.has_defects]
                           /\ results' =
                                 [results EXCEPT ![w] = Append(@, r.has_defects)]
                           /\ idx' = [idx EXCEPT ![w] = @ + 1]
                           /\ goto(w, IF idx[w] + 1 = Len(captured_images[w])
                                        THEN "L669" ELSE "L641")
                           /\ UNCHANGED <<error, outcome, captured_images>>
    /\ UNCHANGED <<processing_active, start_button, serial_controller,
                   multimedia_controller, history_data, history_file, ctl,
                   nthreads, sent, lost, last_command, returned, wire,
                   start_ignored, cooldown, link, reset_slept, analyzer_vars,
                   capture_vars, side_vars>>
    /\ cancelled' = [cancelled EXCEPT ![w] = @ \/ ~processing_active]

\* processing_sequence, lines 662-677: the verdict command
worker_handle_results(w) ==
    /\ pc[w] = "L669"
    /\ IF defects_found[w] THEN handle_defect(w) ELSE handle_normal(w)
    /\ results' = [results EXCEPT ![w] = <<>>]
    /\ idx' = [idx EXCEPT ![w] = 0]
    /\ goto(w, "L679")
    /\ UNCHANGED <<processing_active, start_button, serial_controller,
                   multimedia_controller, history_data, history_file, ctl,
                   nthreads, captured_images, defects_found, outcome, error,
                   start_ignored, cancelled, cooldown,
                   link, reset_slept, analyzer_vars, capture_vars, side_vars>>

\* The status text chosen at lines 671 / 676
status_of(defects) ==
    IF defects THEN "Defects Detected" ELSE "No Defects Found"

\* The entry built at lines 737-743.  Its date, time and duration come from
\* the wall clock; the field run names the run that built the entry.
history_entry(w, status, images_processed) ==
    [run |-> w, status |-> status, images_processed |-> images_processed]

\* Mutant of worker_add_history_entry: the entry is appended twice.
worker_add_history_entry_twice(w) ==
    /\ pc[w] = "L679"
    /\ LET entry == history_entry(w, status_of(defects_found[w]),
                                  Len(captured_images[w]))
       IN  history_data' = Append(Append(history_data, entry), entry)
    /\ drop_locals(w)
    /\ goto(w, "L745")
    /\ UNCHANGED <<processing_active, start_button, serial_controller,
                   multimedia_controller, history_file, ctl, nthreads, sent,
                   lost, outcome, error, last_command, returned, wire,
                   start_ignored, cancelled, cooldown, link, reset_slept,
                   analyzer_vars, capture_vars, side_vars>>

\* Mutant of worker_add_history_entry: the entry counts the reads of the
\* batch, not the frames it returned.
worker_add_history_entry_counts_reads(w) ==
    /\ pc[w] = "L679"
    /\ history_data' = Append(history_data,
          history_entry(w, status_of(defects_found[w]),
                        NumReads))
    /\ drop_locals(w)
    /\ goto(w, "L745")
    /\ UNCHANGED <<processing_active, start_button, serial_controller,
                   multimedia_controller, history_file, ctl, nthreads, sent,
                   lost, outcome, error, last_command, returned, wire,
                   start_ignored, cancelled, cooldown, link, reset_slept,
                   analyzer_vars, capture_vars, side_vars>>

\* add_history_entry, lines 736-744, called from line 682
worker_add_history_entry(w) ==
    /\ pc[w] = "L679"
    /\ history_data' = Append(history_data,
          history_entry(w, status_of(defects_found[w]),
                        Len(captured_images[w])))
    /\ drop_locals(w)
    /\ goto(w, "L745")
    /\ UNCHANGED <<processing_active, start_button, serial_controller,
                   multimedia_controller, history_file, ctl, nthreads, sent,
                   lost, outcome, error, last_command, returned, wire,
                   start_ignored, cancelled, cooldown, link, reset_slept,
                   analyzer_vars, capture_vars, side_vars>>

\* add_history_entry, lines 745-746 (save_history): the file is rewritten
\* from history_data; the run body then ends without an exception
worker_save_history(w) ==
    /\ pc[w] = "L745"
    /\ history_file' = history_data
    /\ outcome' = [outcome EXCEPT ![w] = "Completed"]
    /\ goto(w, "L692")
    /\ UNCHANGED <<processing_active, start_button, serial_controller,
                   multimedia_controller, history_data, ctl, nthreads,
                   captured_images, idx, defects_found, results, sent, lost,
                   error, last_command, returned, wire, start_ignored,
                   cancelled, cooldown, link, reset_slept, analyzer_vars,
                   capture_vars, side_vars>>

\* processing_sequence, lines 692-696: the finally block returns at once
\* when there is no serial controller
worker_finally_check(w) ==
    /\ pc[w] = "L692"
    /\ goto(w, IF serial_controller = None THEN "done" ELSE "L698")
    /\ UNCHANGED <<processing_active, start_button, serial_controller,
                   multimedia_controller, history_data, history_file, ctl,
                   nthreads, captured_images, idx, defects_found, results,
                   sent, lost, outcome, error, last_command, returned, wire,
                   start_ignored, cancelled, cooldown, link, reset_slept,
                   analyzer_vars, capture_vars, side_vars>>

\* Mutant of worker_reset_devices: the finalizer does not send RESET.
worker_reset_devices_skipped(w) ==
    /\ pc[w] = "L698"
    /\ goto(w, "L699")
    /\ UNCHANGED <<processing_active, start_button, serial_controller,
                   multimedia_controller, history_data, history_file, ctl,
                   nthreads, captured_images, idx, defects_found, results,
                   sent, lost, outcome, error, last_command, returned, wire,
                   start_ignored, cancelled, cooldown, link, reset_slept,
                   analyzer_vars, capture_vars, side_vars>>

\* processing_sequence, line 698
worker_reset_devices(w) ==
    /\ pc[w] = "L698"
    /\ reset_all_devices(w)
    /\ goto(w, "L699")
    /\ UNCHANGED <<processing_active, start_button, serial_controller,
                   multimedia_controller, history_data, history_file, ctl,
                   nthreads, captured_images, idx, defects_found, results,
                   outcome, error, start_ignored, cancelled, cooldown,
                   link, reset_slept, analyzer_vars, capture_vars, side_vars>>

\* processing_sequence, line 699; the finalizer's RESET is behind the run
worker_finally_disable(w) ==
    /\ pc[w] = "L699"
    /\ start_button' = "disabled"
    /\ goto(w, "L701")
    /\ UNCHANGED <<processing_active, serial_controller,
                   multimedia_controller, history_data, history_file, ctl,
                   nthreads, captured_images, idx, defects_found, results,
                   sent, lost, outcome, error, last_command, returned, wire,
                   start_ignored, cooldown, link, reset_slept, analyzer_vars,
                   capture_vars, side_vars>>
    /\ cancelled' = [cancelled EXCEPT ![w] = FALSE]

\* Mutant of worker_cooldown: the button is enabled without the sleep.
worker_cooldown_skipped(w) ==
    /\ pc[w] = "L701"
    /\ start_button' = "normal"
    /\ goto(w, "L704")
    /\ UNCHANGED <<processing_active, serial_controller,
                   multimedia_controller, history_data, history_file, ctl,
                   nthreads, captured_images, idx, defects_found, results,
                   sent, lost, outcome, error, last_command, returned, wire,
                   start_ignored, cancelled, cooldown, link, reset_slept,
                   analyzer_vars, capture_vars, side_vars>>

\* processing_sequence, lines 701-703: time.sleep(5), then the button is
\* enabled
worker_cooldown(w) ==
    /\ pc[w] = "L701"
    /\ start_button' = "normal"
    /\ goto(w, "L704")
    /\ UNCHANGED <<processing_active, serial_controller,
                   multimedia_controller, history_data, history_file, ctl,
                   nthreads, captured_images, idx, defects_found, results,
                   sent, lost, outcome, error, last_command, returned, wire,
                   start_ignored, cancelled, link, reset_slept,
                   analyzer_vars, capture_vars, side_vars>>
    /\ cooldown' = [cooldown EXCEPT ![w] = @ + CooldownDelay]

\* processing_sequence, line 704
worker_clear_active(w) ==
    /\ pc[w] = "L704"
    /\ processing_active' = FALSE
    /\ goto(w, "done")
    /\ UNCHANGED <<start_button, serial_controller, multimedia_controller,
                   history_data, history_file, ctl, nthreads,
                   captured_images, idx, defects_found, results, sent, lost,
                   outcome, error, last_command, returned, wire,
                   start_ignored, cancelled, cooldown, link, reset_slept,
                   analyzer_vars, capture_vars, side_vars>>

\* Every step but the two of reset() that take time
Steps ==
    \/ start_processing
    \/ reset
    \/ reset_no_controller
    \/ reset_raise
    \/ reset_disable
    \/ reset_clear_active
    \/ save_settings
    \/ \E w \in DOMAIN pc : worker_set_active(w)
    \/ \E w \in DOMAIN pc : worker_disable_start(w)
    \/ \E w \in DOMAIN pc : worker_check_serial(w)
    \/ \E w \in DOMAIN pc : worker_start_process(w)
    \/ \E w \in DOMAIN pc : worker_capture_begin(w)
    \/ \E w \in DOMAIN pc : worker_capture(w)
    \/ \E w \in DOMAIN pc : worker_process_frame(w)
    \/ \E w \in DOMAIN pc : worker_handle_results(w)
    \/ \E w \in DOMAIN pc : worker_add_history_entry(w)
    \/ \E w \in DOMAIN pc : worker_save_history(w)
    \/ \E w \in DOMAIN pc : worker_finally_check(w)
    \/ \E w \in DOMAIN pc : worker_reset_devices(w)
    \/ \E w \in DOMAIN pc : worker_finally_disable(w)
    \/ \E w \in DOMAIN pc : worker_cooldown(w)
    \/ \E w \in DOMAIN pc : worker_clear_active(w)

Next == Steps \/ reset_load_settings \/ reset_enable

\* At most MaxWorkers runs are started
Init == InitThreads(MaxWorkers)
Spec == Init /\ [][Next]_vars

\* The serial link fails and recovers at any time (an unplugged cable, a
\* board that resets); Spec and SpecConcurrent assume a reliable link.
link_down ==
    /\ link = "up"
    /\ link' = "down"
    /\ UNCHANGED <<processing_active, start_button, serial_controller,
                   multimedia_controller, history_data, history_file, ctl,
                   nthreads, pc, captured_images, idx, defects_found,
                   results, sent, lost, outcome, error, last_command,
                   returned, wire, cancelled, cooldown, start_ignored,
                   reset_slept, analyzer_vars, capture_vars, side_vars>>

link_up ==
    /\ link = "down"
    /\ link' = "up"
    /\ UNCHANGED <<processing_active, start_button, serial_controller,
                   multimedia_controller, history_data, history_file, ctl,
                   nthreads, pc, captured_images, idx, defects_found,
                   results, sent, lost, outcome, error, last_command,
                   returned, wire, cancelled, cooldown, start_ignored,
                   reset_slept, analyzer_vars, capture_vars, side_vars>>

NextLossy == Next \/ link_down \/ link_up

SpecLossy == Init /\ [][NextLossy]_vars

\* The program with the time that reset() sleeps measured in reset_slept;
\* Spec, SpecLossy and SpecConcurrent do not measure it.
NextTimed == Steps \/ reset_load_settings_timed \/ reset_enable_timed

SpecTimed == Init /\ [][NextTimed]_vars

\* One more run may be started, so that two runs can overlap
InitConcurrent == InitThreads(MaxWorkers + 1)
SpecConcurrent == InitConcurrent /\ [][Next]_vars

\* ------------------------------------------ the analyzer on its own
\* process_image_for_defects applied to every image of Images
analyze ==
    /\ analysis = NoAnalysis
    /\ analysis' = process_image_for_defects(image)
    /\ UNCHANGED <<image, orch_vars, capture_vars, side_vars>>

\* the next file is handed to the analyzer
next_image ==
    /\ analysis # NoAnalysis
    /\ image' \in Images
    /\ analysis' = NoAnalysis
    /\ UNCHANGED <<orch_vars, capture_vars, side_vars>>

InitAnalyzer ==
    /\ InitThreads(MaxWorkers)
    /\ serial_controller = Ctrl
    /\ multimedia_controller = Ctrl

NextAnalyzer == analyze \/ next_image

SpecAnalyzer == InitAnalyzer /\ [][NextAnalyzer]_vars

\* ------------------------------------ the capture coordinator on its own
\* One call of MultimediaController.capture_images, statement by statement,
\* against a wall clock.  A step takes 0..MaxDelay seconds; time.sleep(8)
\* takes at least CaptureDelay.
Delays == 0..MaxDelay

\* f'image_{timestamp}.png', timestamp being the clock to the second
image_filename(timestamp) == <<"image", timestamp, "png">>

\* cv2.imwrite: the file is created or overwritten
imwrite(files, name, frame) ==
    [f \in DOMAIN files \cup {name} |-> IF f = name THEN frame ELSE files[f]]

\* lines 73-76: the save folder; os.makedirs may raise
capture_makedirs ==
    /\ cap_pc = "L72"
    /\ \E raises \in BOOLEAN : cap_pc' = IF raises THEN "L93" ELSE "L79"
    /\ UNCHANGED <<cap_images, cap_files, now, read_at, read_ok,
                   orch_vars, analyzer_vars, side_vars>>

\* Mutant of capture_read: a failed read ends the loop (break, not continue).
capture_read_stops_on_miss ==
    /\ cap_pc = "L79"
    /\ Len(read_at) < NumReads
    /\ read_at' = Append(read_at, now)
    /\ \E d \in Delays, result \in {"frame", "miss", "raise"} :
          /\ now' = now + d
          /\ CASE result = "raise" ->
                    /\ cap_pc' = "L93"
                    /\ cap_images' = <<>>
                    /\ UNCHANGED <<cap_files, read_ok>>
               [] result = "miss" ->
                    /\ read_ok' = Append(read_ok, FALSE)
                    /\ cap_pc' = "L91"
                    /\ UNCHANGED <<cap_images, cap_files>>
               [] result = "frame" ->
                    /\ read_ok' = Append(read_ok, TRUE)
                    /\ cap_files' = imwrite(cap_files, image_filename(now'),
                                            Len(read_at))
                    /\ cap_images' = Append(cap_images, image_filename(now'))
                    /\ cap_pc' = "L89"
    /\ UNCHANGED <<orch_vars, analyzer_vars, side_vars>>

\* Mutant of capture_read: when the read or the write raises, the frames
\* collected so far are returned.
capture_read_returns_partial ==
    /\ cap_pc = "L79"
    /\ Len(read_at) < NumReads
    /\ read_at' = Append(read_at, now)
    /\ \E d \in Delays, result \in {"frame", "miss", "raise"} :
          /\ now' = now + d
          /\ CASE result = "raise" ->
                    /\ cap_pc' = "L93"
                    /\ UNCHANGED <<cap_images, cap_files, read_ok>>
               [] result = "miss" ->
                    /\ read_ok' = Append(read_ok, FALSE)
                    /\ cap_pc' = IF Len(read_at) + 1 = NumReads THEN "L91" ELSE "L79"
                    /\ UNCHANGED <<cap_images, cap_files>>
               [] result = "frame" ->
                    /\ read_ok' = Append(read_ok, TRUE)
                    /\ cap_files' = imwrite(cap_files, image_filename(now'),
                                            Len(read_at))
                    /\ cap_images' = Append(cap_images, image_filename(now'))
                    /\ cap_pc' = "L89"
    /\ UNCHANGED <<orch_vars, analyzer_vars, side_vars>>

\* lines 78-88: one iteration of the loop up to the sleep.  Read number i
\* (from 0) returns a frame, which is written to a file named after the clock
\* and appended, or ret is false and the iteration is skipped (continue), or
\* the read or the write raises and the handler of lines 92-94 returns [].
capture_read ==
    /\ cap_pc = "L79"
    /\ Len(read_at) < NumReads
    /\ read_at' = Append(read_at, now)
    /\ \E d \in Delays, result \in {"frame", "miss", "raise"} :
          /\ now' = now + d
          /\ CASE result = "raise" ->
                    /\ cap_pc' = "L93"
                    /\ cap_images' = <<>>
                    /\ UNCHANGED <<cap_files, read_ok>>
               [] result = "miss" ->
                    /\ read_ok' = Append(read_ok, FALSE)
                    /\ cap_pc' = IF Len(read_at) + 1 = NumReads THEN "L91" ELSE "L79"
                    /\ UNCHANGED <<cap_images, cap_files>>
               [] result = "frame" ->
                    /\ read_ok' = Append(read_ok, TRUE)
                    /\ cap_files' = imwrite(cap_files, image_filename(now'),
                                            Len(read_at))
                    /\ cap_images' = Append(cap_images, image_filename(now'))
                    /\ cap_pc' = "L89"
    /\ UNCHANGED <<orch_vars, analyzer_vars, side_vars>>

\* line 89: time.sleep(8) after a frame was saved
capture_sleep ==
    /\ cap_pc = "L89"
    /\ \E d \in Delays : now' = now + CaptureDelay + d
    /\ cap_pc' = IF Len(read_at) = NumReads THEN "L91" ELSE "L79"
    /\ UNCHANGED <<cap_images, cap_files, read_at, read_ok,
                   orch_vars, analyzer_vars, side_vars>>

InitCapture ==
    /\ InitThreads(MaxWorkers)
    /\ serial_controller = Ctrl
    /\ multimedia_controller = Ctrl

NextCapture == capture_makedirs \/ capture_read \/ capture_sleep

SpecCapture == InitCapture /\ [][NextCapture]_vars

\* ------------------------------------------------------- the history store
\* add_history_entry and save_history statement by statement, for MaxCallers
\* calls in flight at once, one per processing_sequence thread that reached
\* line 679.  Nothing in either method takes a lock.
Callers == 1..MaxCallers

\* What a file holds once bytes were written over the head of a longer text:
\* the tail of the longer text follows the closing bracket, and json.load
\* raises on it.
Unreadable == [run |-> 0, status |-> "not JSON", images_processed |-> 0]

\* The bytes of buffer are written from offset 0 of a file that holds file:
\* each open() has its own offset, and a write does not truncate.
write_at_0(file, buffer) ==
    IF Len(buffer) >= Len(file)
      THEN buffer
      ELSE [k \in 1..Len(file) |-> Unreadable]

\* add_history_entry, lines 736-744: the entry is built and appended;
\* list.append is one step of the interpreter
history_append(c) ==
    /\ hist_pc[c] = "L736"
    /\ \E defects \in BOOLEAN, images_processed \in 1..NumReads :
          LET entry == history_entry(c, status_of(defects), images_processed)
          IN  /\ hist_entry' = [hist_entry EXCEPT ![c] = entry]
              /\ history_data' = Append(history_data, entry)
    /\ hist_pc' = [hist_pc EXCEPT ![c] = "L745"]
    /\ UNCHANGED <<processing_active, start_button, serial_controller,
                   multimedia_controller, history_file, ctl, nthreads, pc,
                   captured_images, idx, defects_found, results, sent, lost,
                   outcome, error, last_command, returned, wire,
                   start_ignored, cancelled, cooldown, link, hist_buffer,
                   reset_slept, analyzer_vars, capture_vars, handle_vars>>

\* save_history, lines 750-751: open(..., 'w') truncates the file, and
\* json.dump serializes the list as it is now into the buffer of f
history_open_dump(c) ==
    /\ hist_pc[c] = "L745"
    /\ history_file' = <<>>
    /\ hist_buffer' = [hist_buffer EXCEPT ![c] = history_data]
    /\ hist_pc' = [hist_pc EXCEPT ![c] = "L751"]
    /\ UNCHANGED <<processing_active, start_button, serial_controller,
                   multimedia_controller, history_data, ctl, nthreads, pc,
                   captured_images, idx, defects_found, results, sent, lost,
                   outcome, error, last_command, returned, wire,
                   start_ignored, cancelled, cooldown, link, hist_entry,
                   reset_slept, analyzer_vars, capture_vars, handle_vars>>

\* save_history, the end of the with block: f is closed and its buffer is
\* written to the file
history_close(c) ==
    /\ hist_pc[c] = "L751"
    /\ history_file' = write_at_0(history_file, hist_buffer[c])
    /\ hist_buffer' = [hist_buffer EXCEPT ![c] = <<>>]
    /\ hist_pc' = [hist_pc EXCEPT ![c] = "done"]
    /\ UNCHANGED <<processing_active, start_button, serial_controller,
                   multimedia_controller, history_data, ctl, nthreads, pc,
                   captured_images, idx, defects_found, results, sent, lost,
                   outcome, error, last_command, returned, wire,
                   start_ignored, cancelled, cooldown, link, hist_entry,
                   reset_slept, analyzer_vars, capture_vars, handle_vars>>

InitHistory ==
    /\ InitState(MaxWorkers)
    /\ serial_controller = Ctrl
    /\ multimedia_controller = Ctrl
    /\ InitStore(MaxCallers)
    /\ HandlesNotCounted

NextHistory ==
    \E c \in Callers : history_append(c) \/ history_open_dump(c) \/ history_close(c)

SpecHistory == InitHistory /\ [][NextHistory]_vars

\* ------------------------------------------------------ the device handles
\* GUI.__init__, load_settings, save_settings and reset statement by
\* statement, counting the serial.Serial and cv2.VideoCapture objects that
\* are open.  A controller object is closed by its __del__ when the last
\* reference to it goes, which for an installed controller is when the
\* attribute of the GUI is stored over.

\* GUI.__init__, lines 249-258: the camera is opened; a failure is reported
\* in a dialog.  setup_gui then calls load_settings (line 296).
gui_init ==
    /\ dev_pc = "L250"
    /\ \E opens \in BOOLEAN :
          IF opens
            THEN /\ cam_open' = cam_open + 1
                 /\ multimedia_controller' = Ctrl
            ELSE UNCHANGED <<cam_open, multimedia_controller>>
    /\ dev_pc' = "L525"
    /\ UNCHANGED <<processing_active, start_button, serial_controller,
                   history_data, history_file, ctl, nthreads, pc,
                   captured_images, idx, defects_found, results, sent, lost,
                   outcome, error, last_command, returned, wire, start_ignored,
                   cancelled, cooldown, link, reset_slept, ser_open,
                   preview, preview, analyzer_vars,
                   capture_vars, store_vars>>

\* load_settings, line 525, the call: SerialComsController.__init__ opens the
\* port, or raises and load_settings returns through its except clause
load_settings_open_serial ==
    /\ dev_pc = "L525"
    /\ \E opens \in BOOLEAN :
          IF opens
            THEN /\ ser_open' = ser_open + 1
                 /\ dev_pc' = "L525 store"
            ELSE /\ dev_pc' = "mainloop"
                 /\ UNCHANGED ser_open
    /\ UNCHANGED <<processing_active, start_button, serial_controller,
                   multimedia_controller, history_data, history_file, ctl,
                   nthreads, pc, captured_images, idx, defects_found, results,
                   sent, lost, outcome, error, last_command, returned, wire,
                   start_ignored, cancelled, cooldown, link, reset_slept,
                   cam_open, preview, preview, analyzer_vars,
                   capture_vars, store_vars>>

\* load_settings, line 525, the assignment: the new controller is installed
\* and the one it replaces is closed
load_settings_store_serial ==
    /\ dev_pc = "L525 store"
    /\ serial_controller' = Ctrl
    /\ ser_open' = ser_open - held(serial_controller)
    /\ dev_pc' = "L529"
    /\ UNCHANGED <<processing_active, start_button, multimedia_controller,
                   history_data, history_file, ctl, nthreads, pc,
                   captured_images, idx, defects_found, results, sent, lost,
                   outcome, error, last_command, returned, wire, start_ignored,
                   cancelled, cooldown, link, reset_slept, cam_open,
                   preview, preview, analyzer_vars,
                   capture_vars, store_vars>>

\* load_settings, line 529, the call: MultimediaController.__init__ opens the
\* camera, or raises
load_settings_open_camera ==
    /\ dev_pc = "L529"
    /\ \E opens \in BOOLEAN :
          IF opens
            THEN /\ cam_open' = cam_open + 1
                 /\ dev_pc' = "L529 store"
            ELSE /\ dev_pc' = "mainloop"
                 /\ UNCHANGED cam_open
    /\ UNCHANGED <<processing_active, start_button, serial_controller,
                   multimedia_controller, history_data, history_file, ctl,
                   nthreads, pc, captured_images, idx, defects_found, results,
                   sent, lost, outcome, error, last_command, returned, wire,
                   start_ignored, cancelled, cooldown, link, reset_slept,
                   ser_open, preview, preview, analyzer_vars,
                   capture_vars, store_vars>>

\* load_settings, line 529, the assignment
load_settings_store_camera ==
    /\ dev_pc = "L529 store"
    /\ multimedia_controller' = Ctrl
    /\ cam_open' = cam_open - held(multimedia_controller)
    /\ dev_pc' = "mainloop"
    /\ UNCHANGED <<processing_active, start_button, serial_controller,
                   history_data, history_file, ctl, nthreads, pc,
                   captured_images, idx, defects_found, results, sent, lost,
                   outcome, error, last_command, returned, wire, start_ignored,
                   cancelled, cooldown, link, reset_slept, ser_open,
                   preview, preview, analyzer_vars,
                   capture_vars, store_vars>>

\* save_settings, lines 367-369: the test connection is opened, or
\* SerialException ends the callback with a dialog
save_settings_test_open ==
    /\ dev_pc = "mainloop"
    /\ \E opens \in BOOLEAN :
          IF opens
            THEN /\ ser_open' = ser_open + 1
                 /\ dev_pc' = "L370"
            ELSE UNCHANGED <<ser_open, dev_pc>>
    /\ UNCHANGED <<processing_active, start_button, serial_controller,
                   multimedia_controller, history_data, history_file, ctl,
                   nthreads, pc, captured_images, idx, defects_found, results,
                   sent, lost, outcome, error, last_command, returned, wire,
                   start_ignored, cancelled, cooldown, link, reset_slept,
                   cam_open, preview, preview, analyzer_vars,
                   capture_vars, store_vars>>

\* save_settings, line 370: the test connection is closed
save_settings_test_close ==
    /\ dev_pc = "L370"
    /\ ser_open' = ser_open - 1
    /\ dev_pc' = "L378"
    /\ UNCHANGED <<processing_active, start_button, serial_controller,
                   multimedia_controller, history_data, history_file, ctl,
                   nthreads, pc, captured_images, idx, defects_found, results,
                   sent, lost, outcome, error, last_command, returned, wire,
                   start_ignored, cancelled, cooldown, link, reset_slept,
                   cam_open, preview, preview, analyzer_vars,
                   capture_vars, store_vars>>

\* save_settings, line 378, the call
save_settings_open_serial ==
    /\ dev_pc = "L378"
    /\ \E opens \in BOOLEAN :
          IF opens
            THEN /\ ser_open' = ser_open + 1
                 /\ dev_pc' = "L378 store"
            ELSE /\ dev_pc' = "mainloop"
                 /\ UNCHANGED ser_open
    /\ UNCHANGED <<processing_active, start_button, serial_controller,
                   multimedia_controller, history_data, history_file, ctl,
                   nthreads, pc, captured_images, idx, defects_found, results,
                   sent, lost, outcome, error, last_command, returned, wire,
                   start_ignored, cancelled, cooldown, link, reset_slept,
                   cam_open, preview, preview, analyzer_vars,
                   capture_vars, store_vars>>

\* save_settings, line 378, the assignment; load_settings follows (line 385)
save_settings_store_serial ==
    /\ dev_pc = "L378 store"
    /\ serial_controller' = Ctrl
    /\ ser_open' = ser_open - held(serial_controller)
    /\ dev_pc' = "L525"
    /\ UNCHANGED <<processing_active, start_button, multimedia_controller,
                   history_data, history_file, ctl, nthreads, pc,
                   captured_images, idx, defects_found, results, sent, lost,
                   outcome, error, last_command, returned, wire, start_ignored,
                   cancelled, cooldown, link, reset_slept, cam_open,
                   preview, preview, analyzer_vars,
                   capture_vars, store_vars>>

\* reset, lines 921-926: RESET is sent and load_settings is called
reset_reload ==
    /\ dev_pc = "mainloop"
    /\ serial_controller # None
    /\ reset_all_devices(0)
    /\ dev_pc' = "L525"
    /\ UNCHANGED <<processing_active, start_button, serial_controller,
                   multimedia_controller, history_data, history_file, ctl,
                   nthreads, pc, captured_images, idx, defects_found, results,
                   outcome, error, start_ignored, cancelled, cooldown, link,
                   reset_slept, ser_open, cam_open, preview, analyzer_vars,
                   capture_vars, store_vars>>

\* toggle_preview with the preview off, lines 455-465: start_preview sets
\* preview_active and starts the preview thread
toggle_preview_start ==
    /\ dev_pc = "mainloop"
    /\ preview = "off"
    /\ preview' = "started"
    /\ UNCHANGED <<processing_active, start_button, serial_controller,
                   multimedia_controller, history_data, history_file, ctl,
                   nthreads, pc, captured_images, idx, defects_found, results,
                   sent, lost, outcome, error, last_command, returned, wire,
                   start_ignored, cancelled, cooldown, link, reset_slept,
                   dev_pc, ser_open, cam_open, analyzer_vars, capture_vars,
                   store_vars>>

\* preview_loop, line 475: the thread opens the selected camera itself; when
\* that fails cap.read() returns no frame and the loop idles
preview_loop_open ==
    /\ preview = "started"
    /\ \E opens \in BOOLEAN :
          IF opens
            THEN /\ cam_open' = cam_open + 1
                 /\ preview' = "reading"
            ELSE /\ preview' = "blind"
                 /\ UNCHANGED cam_open
    /\ UNCHANGED <<processing_active, start_button, serial_controller,
                   multimedia_controller, history_data, history_file, ctl,
                   nthreads, pc, captured_images, idx, defects_found, results,
                   sent, lost, outcome, error, last_command, returned, wire,
                   start_ignored, cancelled, cooldown, link, reset_slept,
                   dev_pc, ser_open, analyzer_vars, capture_vars, store_vars>>

\* toggle_preview with the preview on, lines 458-470: stop_preview clears
\* preview_active and joins the thread, which releases its camera (line 499)
toggle_preview_stop ==
    /\ dev_pc = "mainloop"
    /\ preview # "off"
    /\ cam_open' = cam_open - (IF preview = "reading" THEN 1 ELSE 0)
    /\ preview' = "off"
    /\ UNCHANGED <<processing_active, start_button, serial_controller,
                   multimedia_controller, history_data, history_file, ctl,
                   nthreads, pc, captured_images, idx, defects_found, results,
                   sent, lost, outcome, error, last_command, returned, wire,
                   start_ignored, cancelled, cooldown, link, reset_slept,
                   dev_pc, ser_open, analyzer_vars, capture_vars, store_vars>>

\* GUI.__init__ is about to open the camera; no controller exists yet
InitDevices ==
    /\ InitState(MaxWorkers)
    /\ serial_controller = None
    /\ multimedia_controller = None
    /\ InitStore(0)
    /\ InitHandles("L250")

NextDevices ==
    \/ gui_init
    \/ load_settings_open_serial
    \/ load_settings_store_serial
    \/ load_settings_open_camera
    \/ load_settings_store_camera
    \/ save_settings_test_open
    \/ save_settings_test_close
    \/ save_settings_open_serial
    \/ save_settings_store_serial
    \/ reset_reload
    \/ toggle_preview_start
    \/ preview_loop_open
    \/ toggle_preview_stop

SpecDevices == InitDevices /\ [][NextDevices]_vars

\* ------------------------------------------------------------ definitions
Range(seq) == {seq[k] : k \in DOMAIN seq}
IsPrefix(a, b) == Len(a) <= Len(b) /\ \A k \in DOMAIN a : a[k] = b[k]
Live(w) == pc[w] \notin {"unborn", "done"}
Idle == ~processing_active /\ start_button = "normal"
AfterReset(w) == pc[w] \in {"L699", "L701", "L704", "done"}

\* The command sequences of a whole run
CompletedSequences == {<<"START", "DEFECT", "RESET">>, <<"START", "NORMAL", "RESET">>}
FailedSequence == <<"START", "RESET">>

\* ----------------------------------------------------------------- C1
\* C1 as stated: every finished run, Completed or Failed, has issued exactly
\* START, then one of DEFECT / NORMAL, then RESET.
C1_Original ==
    \A w \in DOMAIN pc : pc[w] = "done" => sent[w] \in CompletedSequences

\* C1 amended: at every moment the commands a run has issued are a prefix of
\* its sequence, and a finished run has issued the whole of it: START,
\* DEFECT|NORMAL, RESET when it ends Completed; START, RESET when it ends
\* Failed; no START and no verdict when it found no serial controller.
C1_RunCommandSequence ==
    \A w \in DOMAIN pc :
       /\ \/ \E full \in CompletedSequences : IsPrefix(sent[w], full)
          \/ IsPrefix(sent[w], FailedSequence)
          \/ outcome[w] = "NotInitialized" /\ IsPrefix(sent[w], <<"RESET">>)
       /\ outcome[w] = "Completed" /\ AfterReset(w) => sent[w] \in CompletedSequences
       /\ outcome[w] = "Failed" /\ AfterReset(w) => sent[w] = FailedSequence
       /\ outcome[w] = "NotInitialized" => "START" \notin Range(sent[w])

C1_Witness ==
    \E w \in DOMAIN pc :
       /\ pc[w] = "done"
       /\ outcome[w] = "Failed"
       /\ error[w] = "Failed to capture images"
       /\ sent[w] = FailedSequence

\* ----------------------------------------------------------------- C2
\* C2: at most one processing run is in flight at any time.
C2_AtMostOneRunInFlight ==
    Cardinality({w \in DOMAIN pc : Live(w)}) <= 1

C4_StartWhileActiveIsNoOp ==
    [][ /\ processing_active =>
              /\ nthreads' = nthreads
              /\ \A w \in DOMAIN pc : pc[w] = "unborn" => pc'[w] = "unborn"
        /\ start_ignored' # start_ignored =>
              /\ processing_active
              /\ UNCHANGED <<processing_active, start_button,
                             serial_controller, multimedia_controller,
                             history_data, history_file, ctl, nthreads, pc,
                             captured_images, idx, defects_found, results,
                             sent, outcome, error, last_command>> ]_vars

C4_Witness == start_ignored /\ processing_active /\ nthreads = 1

\* ----------------------------------------------------------------- C5
\* C5: a run whose capture batch is empty ends Failed, issues START then RESET
\* and nothing else, and appends no record: every record of the history stems
\* from a non-empty batch, and there are as many records as runs that got past
\* add_history_entry.
C5_EmptyBatchFails ==
    /\ \A w \in DOMAIN pc :
          error[w] = "Failed to capture images" =>
             /\ outcome[w] = "Failed"
             /\ IsPrefix(sent[w], FailedSequence)
             /\ sent[w][1] = "START"
             /\ pc[w] = "done" => sent[w] = FailedSequence
    /\ \A k \in DOMAIN history_data : history_data[k].images_processed >= 1
    /\ Len(history_data) =
          Cardinality({w \in DOMAIN pc : pc[w] = "L745" \/ outcome[w] = "Completed"})

C5_Witness ==
    \E w \in DOMAIN pc :
       /\ pc[w] = "done"
       /\ error[w] = "Failed to capture images"
       /\ sent[w] = FailedSequence
       /\ history_data = <<>>
       /\ ~processing_active

\* ----------------------------------------------------------------- C6
\* C6: the verdict command is DEFECT exactly when at least one analysed frame
\* of the batch was defective, and NORMAL otherwise.
C6_VerdictIsOrOfFrames ==
    [][ \A w \in DOMAIN pc :
           pc[w] = "L669" /\ pc'[w] = "L679" =>
              /\ sent'[w] = Append(sent[w],
                    IF \E k \in DOMAIN results[w] : results[w][k]
                      THEN "DEFECT" ELSE "NORMAL") ]_vars

C6_Witness ==
    \E w \in DOMAIN pc :
       /\ pc[w] = "L679"
       /\ Len(captured_images[w]) = NumReads
       /\ sent[w] = <<"START", "DEFECT">>

\* ----------------------------------------------------------------- C7
\* C7: whenever the analyzer fails on a frame it returns is_defective = true.
C7_AnalyzerFailsSafe ==
    analysis # NoAnalysis /\ ~image.readable => analysis.has_defects

\* ----------------------------------------------------------------- C8
\* The analyzer failed on a frame of run w: the only source of the TypeError.
AnalysisFailed(w) == error[w] = "TypeError"

\* C8: a run with a frame whose analysis failed still sends a verdict, ends
\* Completed and appends its history record.
C8_AnalysisFailureDoesNotAbort ==
    \A w \in DOMAIN pc :
       pc[w] = "done" /\ AnalysisFailed(w) =>
          /\ outcome[w] = "Completed"
          /\ "DEFECT" \in Range(sent[w])
          /\ Len(history_data) >= 1

\* ----------------------------------------------------------------- C9
\* C9: whenever the system is Idle and a command has been sent, the last
\* command sent is RESET.
C9_IdleAfterReset ==
    Idle /\ last_command # "none" => last_command = "RESET"

\* ----------------------------------------------------------------- C10
\* C10: once every started run has finished and the control thread is back in
\* its main loop, processing_active is false and the start button is enabled.
C10_FinishedRunsReturnToIdle ==
    /\ nthreads >= 1
    /\ \A w \in DOMAIN pc : ~Live(w)
    /\ ctl = "mainloop"
    => Idle

\* ----------------------------------------------------------------- C11
\* The runs that have handed their entry to the history
Recorded == {w \in DOMAIN pc : pc[w] = "L745" \/ outcome[w] = "Completed"}

\* history_data holds exactly one entry per recorded run and none of a run
\* that ended Failed or found no serial controller
OneEntryPerCompletedRun ==
    /\ \A j, k \in DOMAIN history_data :
          history_data[j].run = history_data[k].run => j = k
    /\ {history_data[k].run : k \in DOMAIN history_data} = Recorded
    /\ \A w \in DOMAIN pc :
          outcome[w] \in {"Failed", "NotInitialized"} => w \notin Recorded

\* C11: after any sequence of runs the history holds exactly one entry per
\* Completed run and none for a Failed run, and the entries stand in the order
\* in which the runs handed them over: a step either leaves the history alone
\* or appends the entry of the run that completes in that step.
C11_HistoryIsCompletedRuns ==
    [][ /\ OneEntryPerCompletedRun
        /\ OneEntryPerCompletedRun'
        /\ \/ history_data' = history_data
           \/ \E w \in DOMAIN pc :
                 /\ pc[w] = "L679" /\ pc'[w] = "L745"
                 /\ Len(history_data') = Len(history_data) + 1
                 /\ IsPrefix(history_data, history_data')
                 /\ history_data'[Len(history_data')].run = w ]_vars

C11_Witness ==
    /\ \A w \in DOMAIN pc : pc[w] = "done"
    /\ \E w \in DOMAIN pc : outcome[w] = "Failed"
    /\ \E w \in DOMAIN pc :
          /\ outcome[w] = "Completed"
          /\ history_data = <<history_entry(w, "Defects Detected", NumReads)>>

\* ----------------------------------------------------------------- C12
\* The analyzer has measured the current image: it was readable and had a
\* contour, so lines 178-207 ran.
Measured == analysis # NoAnalysis /\ image.readable /\ image.contours

\* C12: a measured frame is classified defective exactly when its ratio
\* object_area / bounding_box_area is below 0.70 or above 0.95; ratios from
\* 0.70 to 0.95, both ends included, are not defective, and a ratio above 1.0
\* is classified defective and still annotated, not treated as an error.
C12_ThresholdClassification ==
    Measured =>
       LET a == image.object_area
           b == image.width * image.height
       IN  /\ analysis.has_defects <=> (100 * a < 70 * b \/ 100 * a > 95 * b)
           /\ 70 * b <= 100 * a /\ 100 * a <= 95 * b => ~analysis.has_defects
           /\ a > b => analysis.has_defects /\ analysis.result_image = "annotated"

C12_Witness ==
    /\ Measured
    /\ 100 * image.object_area = 95 * image.width * image.height
    /\ ~analysis.has_defects

\* ----------------------------------------------------------------- C13
\* The numbers (from 0) of the reads that returned a frame, in read order
SuccessfulReads ==
    SelectSeq([k \in 1..Len(read_ok) |-> k - 1], LAMBDA i : read_ok[i + 1])

\* The frames behind the file names of a batch, as stored in the save folder
FramesOf(batch) == [k \in DOMAIN batch |-> cap_files[batch[k]]]

\* C13: a capture_images call that returns from line 91 has made all 4 reads
\* and returns the frames of exactly the successful reads, in read order, one
\* file each; at every point of the loop the frames collected so far are the
\* successful reads so far, and the batch is the one capture_loop computes
\* (which counts reads from 1).  A call in which the folder, a read or a write
\* raises returns the empty list from line 94.
C13_BatchIsSuccessfulReads ==
    /\ cap_pc \in {"L79", "L89", "L91"} =>
          /\ FramesOf(cap_images) = SuccessfulReads
          /\ \A j, k \in DOMAIN cap_images :
                cap_images[j] = cap_images[k] => j = k
    /\ cap_pc = "L91" =>
          /\ Len(read_ok) = NumReads
          /\ Len(cap_images) = Cardinality({k \in 1..NumReads : read_ok[k]})
          /\ [k \in DOMAIN cap_images |-> cap_files[cap_images[k]] + 1]
                = captured_frames(read_ok, NoFault)
    /\ cap_pc = "L93" => cap_images = <<>>

C13_Witness ==
    /\ cap_pc = "L91"
    /\ read_ok = <<TRUE, TRUE, FALSE, TRUE>>
    /\ FramesOf(cap_images) = <<0, 1, 3>>

\* ----------------------------------------------------------------- C19
\* C19: any two successive camera reads of a batch are at least 8 seconds
\* apart, whether the earlier one returned a frame or not.
C19_ReadsAreSpaced ==
    \A k \in 2..Len(read_at) : read_at[k] - read_at[k - 1] >= CaptureDelay

\* ----------------------------------------------------------------- C14
\* The verdict command that reflects the analysed frames `analysed`
VerdictOf(analysed) ==
    IF \E k \in DOMAIN analysed : analysed[k] THEN "DEFECT" ELSE "NORMAL"

\* A run that left the loop by the break: it analyses nothing further, sends
\* one verdict and then, the serial controller being still there, RESET.
CancelledRunFinishes(w) ==
    cancelled[w] =>
       /\ outcome[w] \in {"Running", "Completed"}
       /\ pc[w] \in {"L669", "L679", "L745", "L692", "L698", "L699"}
       /\ serial_controller # None
       /\ pc[w] = "L669" =>
             /\ sent[w] = <<"START">>
             /\ Len(results[w]) = idx[w]
             /\ idx[w] < Len(captured_images[w])
       /\ pc[w] \in {"L679", "L745", "L692", "L698"} =>
             sent[w] \in {<<"START", "DEFECT">>, <<"START", "NORMAL">>}
       /\ pc[w] = "L699" => sent[w] \in CompletedSequences

\* C14: a worker that finds processing_active cleared at the between-frame
\* check of line 642 analyses no further frame; it still sends exactly one of
\* DEFECT / NORMAL, the one reflecting the frames analysed so far, and then
\* RESET.
C14_CancelledRunStillFinalizes ==
    [][ \A w \in DOMAIN pc :
           /\ CancelledRunFinishes(w)
           /\ CancelledRunFinishes(w)'
           /\ pc[w] = "L641" /\ ~processing_active /\ pc'[w] # pc[w] =>
                 /\ pc'[w] = "L669"
                 /\ cancelled'[w]
                 /\ results'[w] = results[w]
                 /\ sent'[w] = sent[w]
           /\ cancelled[w] /\ pc[w] = "L669" /\ pc'[w] # pc[w] =>
                 /\ pc'[w] = "L679"
                 /\ sent'[w] = Append(sent[w], VerdictOf(results[w])) ]_vars

C14_Witness ==
    \E w \in DOMAIN pc :
       /\ cancelled[w]
       /\ pc[w] = "L699"
       /\ sent[w] = <<"START", "DEFECT", "RESET">>

\* ----------------------------------------------------------------- C15
\* C15: every operator Reset, whatever the state it is invoked in and with or
\* without a serial controller, sends RESET, and when it ends
\* processing_active is false and the start button is enabled.
C15_ResetForcesIdle ==
    [][ /\ ctl = "mainloop" /\ ctl' # "mainloop" =>
              /\ ctl' = "L925"
              /\ last_command' = "RESET"
        /\ ctl # "mainloop" /\ ctl' = "mainloop" =>
              /\ ~processing_active'
              /\ start_button' = "normal" ]_vars

\* ----------------------------------------------------------------- C16
\* The line a worker continues at after each of its three sends
AfterSend(line) ==
    CASE line = "L629" -> "L634"
      [] line = "L669" -> "L679"
      [] line = "L698" -> "L699"
      [] OTHER -> "none"

\* C16: a send of a run, written or not, is attempted once: it adds one
\* command, not sent by the run before, to the run's commands; the run goes on
\* at the same line with the same outcome as after a successful write, no
\* exception is raised, and a run that passed the serial-controller check
\* still ends with RESET attempted, whatever was lost before.
C16_SendFailureNotFatal ==
    [][ \A w \in DOMAIN pc :
           /\ sent'[w] # sent[w] =>
                 /\ \E c \in Commands :
                       /\ c \notin Range(sent[w])
                       /\ sent'[w] = Append(sent[w], c)
                       /\ wire' \in {encode(c), NotWritten}
                       /\ lost'[w] = IF wire' = NotWritten
                                       THEN Append(lost[w], c) ELSE lost[w]
                 /\ pc'[w] = AfterSend(pc[w])
                 /\ outcome'[w] = outcome[w]
                 /\ error'[w] = error[w]
           /\ sent'[w] = sent[w] => lost'[w] = lost[w]
           /\ outcome'[w] \in {"Completed", "Failed"} /\ pc'[w] = "done" =>
                 /\ sent'[w][1] = "START"
                 /\ sent'[w][Len(sent'[w])] = "RESET" ]_vars

C16_Witness ==
    \E w \in DOMAIN pc :
       /\ pc[w] = "done"
       /\ outcome[w] = "Completed"
       /\ lost[w] = <<"START", "NORMAL">>
       /\ sent[w] = <<"START", "NORMAL", "RESET">>
       /\ Len(history_data) = 1

\* ----------------------------------------------------------------- C17
\* The four legal lines of the wire protocol
Messages == {"START\n", "DEFECT\n", "NORMAL\n", "RESET\n"}

\* C17: whatever is written to the serial device is one of the four tokens
\* followed by one newline; start_process writes START, handle_defect DEFECT,
\* handle_normal NORMAL and reset_all_devices (the finalizer's and the
\* operator's) RESET, and nothing is written by any other step.
C17_WireProtocolIsClosed ==
    [][ /\ wire' \in Messages \cup {"none", NotWritten}
        /\ \A w \in DOMAIN pc :
              pc'[w] # pc[w] =>
                 /\ pc[w] = "L629" => wire' \in {"START\n", NotWritten}
                 /\ pc[w] = "L669" /\ defects_found[w] => wire' \in {"DEFECT\n", NotWritten}
                 /\ pc[w] = "L669" /\ ~defects_found[w] => wire' \in {"NORMAL\n", NotWritten}
                 /\ pc[w] = "L698" => wire' \in {"RESET\n", NotWritten}
        /\ ctl = "mainloop" /\ ctl' = "L925" => wire' \in {"RESET\n", NotWritten}
        /\ wire' # wire =>
              \/ ctl = "mainloop" /\ ctl' = "L925"
              \/ \E w \in DOMAIN pc :
                    pc[w] \in {"L629", "L669", "L698"} /\ pc'[w] # pc[w] ]_vars

C17_Witness ==
    /\ wire = "DEFECT\n"
    /\ \E w \in DOMAIN pc : pc[w] = "L679" /\ lost[w] = <<"START">>

\* ----------------------------------------------------------------- C18
\* A step of run w that re-arms start: it enables the start button or clears
\* processing_active.
Rearms(w) ==
    /\ pc'[w] # pc[w]
    /\ \/ start_button # "normal" /\ start_button' = "normal"
       \/ processing_active /\ ~processing_active'

\* C18: on the Completed and on the Failed path alike, a run enables the
\* start button and clears processing_active only after it has sent RESET as
\* its last command and has then slept the cooldown of 5 seconds.
C18_RearmedAfterResetAndCooldown ==
    [][ \A w \in DOMAIN pc :
           /\ Rearms(w) =>
                 /\ Len(sent[w]) > 0
                 /\ sent[w][Len(sent[w])] = "RESET"
                 /\ cooldown'[w] >= CooldownDelay
           /\ pc'[w] \in {"L704", "done"} /\ outcome'[w] \in {"Completed", "Failed"} =>
                 cooldown'[w] >= CooldownDelay
           /\ cooldown'[w] > 0 => "RESET" \in Range(sent'[w]) ]_vars

C18_Witness ==
    \E w \in DOMAIN pc :
       /\ pc[w] = "L704"
       /\ outcome[w] = "Failed"
       /\ sent[w] = FailedSequence
       /\ cooldown[w] = CooldownDelay
       /\ start_button = "normal"
       /\ processing_active

\* ----------------------------------------------------------------- C20
\* The workers that are inside capture_images, reading the camera
InCameraRead == {w \in DOMAIN pc : pc[w] = "L79"}

\* C20, for the camera: in no reachable state are two threads inside a read
\* of the camera at once.
C20_DeviceAccessIsSerialized ==
    Cardinality(InCameraRead) <= 1

\* C21: once every call of add_history_entry has finished, the entry each
\* call appended is in the in-memory history and in the persisted history
C21_ConcurrentAppendsKept ==
    (\A c \in DOMAIN hist_pc : hist_pc[c] = "done") =>
        \A c \in DOMAIN hist_pc :
            /\ hist_entry[c] \in Range(history_data)
            /\ hist_entry[c] \in Range(history_file)

\* The run of w met an absent controller: no serial controller at line 622,
\* or no multimedia controller at line 634
MetAbsentController(w) ==
    outcome[w] = "NotInitialized" \/ error[w] = "AttributeError"

\* C22: a start request that meets an absent camera or serial controller
\* starts no run: no command is sent, no frame is captured and no entry is
\* added to the history
C22_AbsentControllerStartsNothing ==
    \A w \in DOMAIN pc :
        MetAbsentController(w) =>
            /\ sent[w] = <<>>
            /\ captured_images[w] = <<>>
            /\ \A k \in DOMAIN history_data : history_data[k].run # w

\* The pair returned at lines 171-173: the masked image, not annotated
no_contour_result == [result_image |-> "masked", has_defects |-> FALSE]

\* C23: with no contour in the masked image the analyzer returns the masked
\* image, not annotated, and has_defects = false; an analysis failure gives
\* a different outcome, with has_defects = true
C23_NoContourDistinctFromFailure ==
    analysis # NoAnalysis =>
        /\ image.readable /\ ~image.contours => analysis = no_contour_result
        /\ ~image.readable =>
              /\ analysis # no_contour_result
              /\ analysis.has_defects

\* reset() is between the sleeps and the return: the START button has just
\* been enabled again (lines 930-931)
ResetRearmed == ctl = "L933"

\* C25: when the operator's reset enables the START button again, at least
\* CooldownDelay seconds have passed since it sent RESET
C25_ResetAppliesCooldown ==
    ResetRearmed => reset_slept >= CooldownDelay

\* A step of the control thread handling a request: only reset() moves ctl,
\* and only start_processing spawns a worker or rejects a start
ControlThreadStep ==
    \/ ctl' # ctl
    \/ nthreads' # nthreads
    \/ start_ignored' # start_ignored

\* C24: handling a start or reset request, the control thread writes nothing
\* to the serial device and does not sleep
C24_ControlThreadNeverBlocks ==
    [][ControlThreadStep =>
          /\ reset_slept' <= reset_slept
          /\ <<last_command, wire>>' = <<last_command, wire>>]_vars

\* The outcome that a send is specified to report when nothing was written
SendError == "SendError"

\* C26: send_command tells its caller whether the bytes were written: it
\* returns SendError exactly when the write failed or the port was not open
C26_SendReportsOutcome ==
    last_command # "none" =>
        (wire = NotWritten <=> returned = SendError)

\* The status that the history shows for a verdict command
status_for(command) ==
    IF command = "DEFECT" THEN "Defects Detected" ELSE "No Defects Found"

\* The entries that run w has in the history
EntriesOf(w) == {k \in DOMAIN history_data : history_data[k].run = w}

\* C27: the entry appended for a run counts the frames that the capture
\* batch of the run returned, and its status agrees with the DEFECT or
\* NORMAL command sent for the run; a Completed run has exactly one entry
C27_RecordMatchesRun ==
    [][ /\ \A w \in DOMAIN pc :
              pc[w] = "L679" /\ pc'[w] = "L745" =>
                  LET entry == history_data'[Len(history_data')]
                  IN  /\ entry.run = w
                      /\ entry.images_processed = Len(captured_images[w])
                      /\ entry.images_processed \in 1..NumReads
        /\ \A w \in DOMAIN pc :
              outcome'[w] = "Completed" =>
                  /\ Cardinality(EntriesOf(w)') = 1
                  /\ Len(sent'[w]) >= 2
                  /\ sent'[w][2] \in {"DEFECT", "NORMAL"}
                  /\ \A k \in EntriesOf(w)' :
                        history_data'[k].status = status_for(sent'[w][2]) ]_vars

\* A run of four frames, the last of them defective, has ended: START,
\* DEFECT and RESET were sent and the history holds its one entry
C27_Witness ==
    \E w \in DOMAIN pc :
        /\ pc[w] = "done"
        /\ outcome[w] = "Completed"
        /\ sent[w] = <<"START", "DEFECT", "RESET">>
        /\ history_data = <<history_entry(w, "Defects Detected", NumReads)>>

\* C28: at every moment at most one serial connection and at most one
\* camera handle are open
C28_OneOpenHandlePerDevice ==
    ser_open <= 1 /\ cam_open <= 1

\* capture_images has returned, from line 91 or from the handler at line 94
CaptureReturned == cap_pc \in {"L91", "L93"}

\* C29: capture_images returns the frames of all the successful reads of a
\* whole batch, or the empty list: when the folder, a read or a write raises,
\* the frames collected so far are dropped and [] is returned, which is the
\* batch that processing_sequence turns into a Failed run
C29_BatchIsAllOrNothing ==
    /\ CaptureReturned =>
          \/ cap_images = <<>>
          \/ /\ cap_pc = "L91"
             /\ Len(read_ok) = NumReads
             /\ FramesOf(cap_images) = SuccessfulReads
    /\ cap_pc = "L93" => cap_images = <<>> /\ Len(read_at) <= NumReads
    /\ \A reads \in ReadPatterns, fault \in Faults \ {NoFault} :
          Len(capture_images(reads, fault)) = 0

\* A read has raised after frames of the batch had been saved: the files are
\* in the folder and the list returned is empty
C29_Witness ==
    /\ cap_pc = "L93"
    /\ cap_images = <<>>
    /\ Len(SuccessfulReads) >= 2
    /\ DOMAIN cap_files # {}

====
